---- MODULE Spec2Model ----
(***************************************************************************)
(* Listing ingestion and delivery pipeline of home-monitor-bot.            *)
(*                                                                         *)
(* The model follows periodic_check (bot/main.py), the service             *)
(* ListingService.fetch_and_filter_listings (bot/utils/listing_service.py),*)
(* the predicate ListingFilter.matches (filters/listing_filter.py) and the *)
(* dedup store Database (database/models.py).  A listing is the dict the   *)
(* parsers emit; an optional value is None == <<>> or Some(v) == <<v>>.    *)
(* The fields price_byn and url are carried by the program but read by no  *)
(* branch of the pipeline, so a listing record here has the fields         *)
(* listing_id, source, address, rooms, price_usd and landlord.             *)
(***************************************************************************)
EXTENDS Integers, Sequences, FiniteSets, TLC

(***************************************************************************)
(* Bounds of the model.                                                    *)
(***************************************************************************)
MaxCycles == 2
MaxFaults == 1
NumOnliner == 9
NumRealt == 5
NumDomovita == 3
MaxStoreIds == 2
NumInstances == 3
MaxDrivers == 2
MaxPage == 2

(***************************************************************************)
(* Program constants.                                                      *)
(***************************************************************************)
ServiceCap == 15
SendCap == 15

None == <<>>
Some(v) == <<v>>

Range(s) == {s[i] : i \in 1..Len(s)}

(***************************************************************************)
(* Strings.  The program's Cyrillic literals are written in Latin         *)
(* transliteration.  str.lower() and the substring test `needle in hay`    *)
(* are given by their values on the vocabulary the model uses.             *)
(***************************************************************************)
Lower(s) ==
    CASE s = "Sobstvennik" -> "sobstvennik"
      [] s = "Agentstvo" -> "agentstvo"
      [] s = "Minsk" -> "minsk"
      [] s = "Minsk, ul. Lenina 5" -> "minsk, ul. lenina 5"
      [] s = "Gomel, ul. Sovetskaya 1" -> "gomel, ul. sovetskaya 1"
      [] s = "Adres ne ukazan" -> "adres ne ukazan"
      [] s = "Ot agenta" -> "ot agenta"
      [] OTHER -> s

Contains(hay, needle) ==
    \/ needle = ""
    \/ hay = needle
    \/ /\ hay = "minsk, ul. lenina 5"
       /\ needle \in {"minsk", "ul. lenina"}
    \/ /\ hay = "gomel, ul. sovetskaya 1"
       /\ needle \in {"gomel"}

(***************************************************************************)
(* What the sites show.  A source's catalogue is the list of listings its  *)
(* page holds, in page order; listing_id is the md5 of the listing's URL,  *)
(* here the listing's number.                                              *)
(***************************************************************************)
NumListings == NumOnliner + NumRealt + NumDomovita

ListingIds == 1..NumListings

SourceOf(i) ==
    IF i <= NumOnliner THEN "Onliner"
    ELSE IF i <= NumOnliner + NumRealt THEN "Realt.by"
    ELSE "Domovita"

Listing(i) ==
    [listing_id |-> i,
     source |-> SourceOf(i),
     address |-> CASE i % 5 = 0 -> "Adres ne ukazan"
                   [] i % 5 = 3 -> "Gomel, ul. Sovetskaya 1"
                   [] OTHER -> "Minsk, ul. Lenina 5",
     rooms |-> CASE i % 3 = 0 -> None
                 [] i % 3 = 1 -> Some(1)
                 [] OTHER -> Some(2),
     price_usd |-> CASE i % 4 = 0 -> None
                     [] i % 4 = 1 -> Some(200)
                     [] i % 4 = 2 -> Some(400)
                     [] OTHER -> Some(300),
     landlord |-> IF i % 2 = 0 THEN Some("Sobstvennik") ELSE Some("Agentstvo")]

Catalogue(src) ==
    CASE src = "Onliner" -> [k \in 1..NumOnliner |-> Listing(k)]
      [] src = "Realt.by" -> [k \in 1..NumRealt |-> Listing(NumOnliner + k)]
      [] src = "Domovita" ->
            [k \in 1..NumDomovita |-> Listing(NumOnliner + NumRealt + k)]
      [] OTHER -> <<>>

(***************************************************************************)
(* get_default_filters and the filters the recipients own.                 *)
(***************************************************************************)
get_default_filters ==
    [rooms |-> None, min_price_usd |-> None, max_price_usd |-> None,
     landlord |-> None, city |-> None]

Has(filters, key) == key \in DOMAIN filters /\ filters[key] # None

(***************************************************************************)
(* ListingFilter.matches: "true", "false", or "raise" when .lower() is     *)
(* applied to None (AttributeError).  The checks run in source order and   *)
(* the first failing one returns.                                          *)
(***************************************************************************)
(* dict.get(key): None for a key the dict does not hold. *)
get(listing, key) == IF key \in DOMAIN listing THEN listing[key] ELSE None

(* Lines 43-47: the rooms check returns False. *)
rooms_soft(filters, listing) ==
    /\ Has(filters, "rooms")
    /\ get(listing, "rooms") # None
    /\ get(listing, "rooms") # filters["rooms"]

rooms_differ(filters, listing) ==
    /\ Has(filters, "rooms")
    /\ get(listing, "rooms") # filters["rooms"]

(* Lines 49-54: the minimum price check returns False. *)
below_min_price_hard(filters, listing) ==
    /\ Has(filters, "min_price_usd")
    /\ \/ get(listing, "price_usd") = None
       \/ get(listing, "price_usd")[1] < filters["min_price_usd"][1]

below_min_price(filters, listing) ==
    /\ Has(filters, "min_price_usd")
    /\ get(listing, "price_usd") # None
    /\ get(listing, "price_usd")[1] < filters["min_price_usd"][1]

(* Lines 56-61: the maximum price check returns False. *)
above_max_price(filters, listing) ==
    /\ Has(filters, "max_price_usd")
    /\ get(listing, "price_usd") # None
    /\ get(listing, "price_usd")[1] > filters["max_price_usd"][1]

matches(filters, listing) ==
    IF rooms_differ(filters, listing)
    THEN "false"
    ELSE IF below_min_price(filters, listing)
    THEN "false"
    ELSE IF above_max_price(filters, listing)
    THEN "false"
    ELSE IF Has(filters, "landlord") /\ listing.landlord = None
    THEN "raise"
    ELSE IF /\ Has(filters, "landlord")
            /\ Lower(listing.landlord[1]) # Lower(filters["landlord"][1])
    THEN "false"
    ELSE IF /\ Has(filters, "city")
            /\ Lower(listing.address) # ""
            /\ ~Contains(Lower(listing.address), "adres ne ukazan")
            /\ ~Contains(Lower(listing.address), Lower(filters["city"][1]))
    THEN "false"
    ELSE "true"

(***************************************************************************)
(* The dedup store.  The table listings maps a stored listing_id to its    *)
(* row; sent_to_users is the JSON list of recipients, a sequence.  The     *)
(* table user_filters is a sequence of rows in insertion (id) order.       *)
(***************************************************************************)
Users == {101, 202}

InitUserFilters ==
    << [id |-> 1, user_id |-> 101, is_active |-> TRUE, created_at |-> 1,
        filter_name |-> "Filtr 1", updated_at |-> 0,
        filters |-> [get_default_filters EXCEPT
                        !.landlord = Some("Agentstvo")]],
       [id |-> 2, user_id |-> 101, is_active |-> TRUE, created_at |-> 2,
        filter_name |-> "Filtr 2", updated_at |-> 0,
        filters |-> [get_default_filters EXCEPT
                        !.landlord = Some("Sobstvennik"),
                        !.city = Some("Minsk"),
                        !.max_price_usd = Some(400)]],
       [id |-> 3, user_id |-> 202, is_active |-> TRUE, created_at |-> 3,
        filter_name |-> "Filtr 3", updated_at |-> 0,
        filters |-> get_default_filters],
       [id |-> 4, user_id |-> 202, is_active |-> FALSE, created_at |-> 4,
        filter_name |-> "Filtr 4", updated_at |-> 0,
        filters |-> [get_default_filters EXCEPT !.rooms = Some(2)]] >>

Row(listing) ==
    [source |-> listing.source, address |-> listing.address,
     rooms |-> listing.rooms, price_usd |-> listing.price_usd,
     landlord |-> listing.landlord, sent_to_users |-> <<>>]

(* The table with the row of listing written under its listing_id. *)
WithRow(table, listing) ==
    [x \in DOMAIN table \cup {listing.listing_id} |->
        IF x = listing.listing_id THEN Row(listing) ELSE table[x]]

(* Mutant of add_listing: INSERT OR REPLACE, the later write wins. *)
add_listing_always_new(table, listing, error) ==
    IF error THEN [table |-> table, is_new |-> FALSE]
    ELSE IF listing.listing_id \in DOMAIN table
    THEN [table |-> table, is_new |-> TRUE]
    ELSE [table |-> WithRow(table, listing), is_new |-> TRUE]

add_listing_replace(table, listing, error) ==
    IF error THEN [table |-> table, is_new |-> FALSE]
    ELSE [table |-> WithRow(table, listing),
          is_new |-> listing.listing_id \notin DOMAIN table]

(* Mutant of add_listing: a storage error is reported as first-seen. *)
add_listing_fail_open(table, listing, error) ==
    IF error THEN [table |-> table, is_new |-> TRUE]
    ELSE IF listing.listing_id \in DOMAIN table
    THEN [table |-> table, is_new |-> FALSE]
    ELSE [table |-> WithRow(table, listing), is_new |-> TRUE]

(* Database.add_listing: INSERT under the UNIQUE constraint on listing_id. *)
(* The result is the table and the returned flag.  error: sqlite raises    *)
(* sqlite3.Error in the call (lines 132-134): nothing is written and the   *)
(* call returns False.  A stored listing_id raises IntegrityError (lines   *)
(* 129-131).                                                               *)
add_listing(table, listing, error) ==
    IF error THEN [table |-> table, is_new |-> FALSE]
    ELSE IF listing.listing_id \in DOMAIN table
    THEN [table |-> table, is_new |-> FALSE]
    ELSE [table |-> WithRow(table, listing), is_new |-> TRUE]

(* Database.is_listing_sent_to_user *)
is_listing_sent_to_user(table, listing_id, user_id) ==
    IF listing_id \in DOMAIN table
    THEN user_id \in Range(table[listing_id].sent_to_users)
    ELSE FALSE

(* Mutant of mark_listing_sent: the list is overwritten, not extended. *)
mark_listing_sent_overwrite(table, listing_id, user_id) ==
    IF listing_id \in DOMAIN table
    THEN [table EXCEPT ![listing_id].sent_to_users = <<user_id>>]
    ELSE table

(* Database.mark_listing_sent *)
mark_listing_sent(table, listing_id, user_id) ==
    IF listing_id \in DOMAIN table
    THEN IF user_id \notin Range(table[listing_id].sent_to_users)
         THEN [table EXCEPT ![listing_id].sent_to_users =
                                Append(@, user_id)]
         ELSE table
    ELSE table

(* Database.get_all_users_with_filters: SELECT DISTINCT user_id of the     *)
(* active rows.  SQL leaves the order of the result open.                  *)
UsersWithFilters(uf) ==
    {uf[i].user_id : i \in {j \in 1..Len(uf) : uf[j].is_active}}

Orderings(S) ==
    {q \in [1..Cardinality(S) -> S] : \A a \in S : \E i \in DOMAIN q : q[i] = a}

get_all_users_with_filters(uf) == Orderings(UsersWithFilters(uf))

(* Database.get_active_filters_for_user: the user's active rows,           *)
(* ORDER BY created_at DESC.                                               *)
RECURSIVE SelectActive(_, _, _)
SelectActive(uf, user_id, stamp) ==
    IF stamp = 0 THEN <<>>
    ELSE LET hit == {i \in 1..Len(uf) : /\ uf[i].created_at = stamp
                                        /\ uf[i].user_id = user_id
                                        /\ uf[i].is_active}
         IN  (IF hit = {} THEN <<>>
              ELSE LET i == CHOOSE j \in hit : TRUE
                   IN  << [id |-> uf[i].id, filters |-> uf[i].filters] >>)
             \o SelectActive(uf, user_id, stamp - 1)

MaxStamp(uf) ==
    IF Len(uf) = 0 THEN 0
    ELSE CHOOSE m \in {uf[i].created_at : i \in 1..Len(uf)} :
            \A i \in 1..Len(uf) : uf[i].created_at <= m

get_active_filters_for_user(uf, user_id) ==
    SelectActive(uf, user_id, MaxStamp(uf))

(***************************************************************************)
(* ListingService.fetch_and_filter_listings.                               *)
(*                                                                         *)
(* A page outcome is Raised when the parser call raises and n >= 0 when it *)
(* returns the first n listings of the source's page.  The Kufar call      *)
(* passes city=..., which KufarParser.parse_listings does not accept, so   *)
(* it raises TypeError on every call.  The other sources return their      *)
(* whole page unless the call is faulty: then one of them raises or        *)
(* returns nothing.                                                        *)
(***************************************************************************)
Raised == -1

Sources == {"Onliner", "Kufar", "Realt.by", "Domovita"}

FullPages ==
    [src \in Sources |->
        IF src = "Kufar" THEN Raised ELSE Len(Catalogue(src))]

FaultyPages ==
    {[FullPages EXCEPT ![src] = v] :
        src \in Sources \ {"Kufar"}, v \in {Raised, 0}}

Outcomes(faulty) == IF faulty THEN FaultyPages ELSE {FullPages}

(* One try/except block: extend all_listings unless the call raised. *)
TryParse(all, src, returned) ==
    IF returned = Raised THEN all
    ELSE all \o SubSeq(Catalogue(src), 1, returned)

(* Mutant of FetchAll: one try block around the four calls, so that the   *)
(* first call that raises ends the fetching.                               *)
FetchAllOneTry(outcome) ==
    IF outcome["Onliner"] = Raised THEN <<>>
    ELSE SubSeq(Catalogue("Onliner"), 1, outcome["Onliner"]) \o
         (IF outcome["Kufar"] = Raised THEN <<>>
          ELSE SubSeq(Catalogue("Kufar"), 1, outcome["Kufar"]) \o
               (IF outcome["Realt.by"] = Raised THEN <<>>
                ELSE SubSeq(Catalogue("Realt.by"), 1, outcome["Realt.by"]) \o
                     (IF outcome["Domovita"] = Raised THEN <<>>
                      ELSE SubSeq(Catalogue("Domovita"), 1,
                                  outcome["Domovita"]))))

FetchAll(outcome) ==
    TryParse(TryParse(TryParse(TryParse(<<>>, "Onliner", outcome["Onliner"]),
                               "Kufar", outcome["Kufar"]),
                      "Realt.by", outcome["Realt.by"]),
             "Domovita", outcome["Domovita"])

(* Mutant of Selected: the first-seen flag is not consulted. *)
SelectedUnsentOnly(is_new, is_sent) == ~is_sent

(* The selection test of the loop body (line 93). *)
Selected(is_new, is_sent) == is_new /\ ~is_sent

(* Lines 84-97, the loop body for a listing that matches: add_listing,     *)
(* then the selection test.                                                *)
Observe(table, listing, user_id, error) ==
    LET a == add_listing(table, listing, error)
        sent == is_listing_sent_to_user(a.table, listing.listing_id, user_id)
    IN  [table |-> a.table, is_new |-> a.is_new,
         selected |-> Selected(a.is_new, sent)]

(* The filtering loop over all_listings from position k on.  An exception  *)
(* of matches leaves the loop with the rows added so far.                  *)
RECURSIVE FilterLoop(_, _, _, _, _, _)
FilterLoop(all, k, filters, user_id, table, acc) ==
    IF k > Len(all)
    THEN [table |-> table, filtered_listings |-> acc, raised |-> FALSE]
    ELSE LET m == matches(filters, all[k])
         IN  IF m = "raise"
             THEN [table |-> table, filtered_listings |-> acc, raised |-> TRUE]
             ELSE IF m = "false"
             THEN FilterLoop(all, k + 1, filters, user_id, table, acc)
             ELSE LET a == Observe(table, all[k], user_id, FALSE)
                  IN  FilterLoop(all, k + 1, filters, user_id, a.table,
                                 IF a.selected
                                 THEN Append(acc, all[k])
                                 ELSE acc)

FirstN(s, n) == SubSeq(s, 1, IF Len(s) < n THEN Len(s) ELSE n)

LastN(s, n) == IF Len(s) > n THEN SubSeq(s, Len(s) - n + 1, Len(s)) ELSE s

(* filtered_listings[:15] *)
ServiceResult(filtered) == FirstN(filtered, ServiceCap)

fetch_and_filter_listings(filters, user_id, outcome, table) ==
    LET loop == FilterLoop(FetchAll(outcome), 1, filters, user_id, table, <<>>)
    IN  [table |-> loop.table,
         filtered_listings |-> loop.filtered_listings,
         raised |-> loop.raised,
         result |-> ServiceResult(loop.filtered_listings)]

(***************************************************************************)
(* periodic_check.                                                         *)
(*                                                                         *)
(* pc is the position in the job: "idle" between two runs, "fetch" before  *)
(* the call of fetch_and_filter_listings for active_filters[filter_idx],   *)
(* "dispatch" at the duplicate removal and the cap (lines 50-59), "send"   *)
(* before the send of listings_to_send[send_idx].                          *)
(*                                                                         *)
(* History variables: send_count counts the calls of send_message per      *)
(* (listing, recipient), send_ok holds the pairs whose send returned,      *)
(* cycle_sends counts the sends per recipient in the current run,          *)
(* matched_listings is the concatenation of the filtered_listings of the   *)
(* current recipient's service calls before any cap, last_outcome the page *)
(* outcomes of the latest service call, dispatched the listings chosen for *)
(* sending per recipient processed in the current run, cut the listings a  *)
(* cap dropped (with recipient and run), cycle_result how the latest run   *)
(* ended, faults the number of faults of the environment so far (a faulty  *)
(* page, a failed send, an unreachable store).                             *)
(***************************************************************************)
VARIABLES listings, user_filters,
          pc, cycle, cycle_result, users, user_idx, active_filters,
          filter_idx, all_listings, listings_to_send, send_idx,
          send_count, send_ok, cycle_sends, faults,
          matched_listings, last_outcome, dispatched, cut

(***************************************************************************)
(* The components checked on their own, each under its own specification:  *)
(* the dedup store under any sequence of calls (StoreSpec).  store_call is *)
(* the latest call of the store and what it returned, store_marked the     *)
(* pairs for which mark_listing_sent has completed on a stored listing.    *)
(***************************************************************************)
VARIABLES store_call, store_marked

(***************************************************************************)
(* The SeleniumBaseParser instances and the class fields they share        *)
(* (DriverSpec).  made holds the constructed instances, driver and         *)
(* own_driver are their fields driver and _own_driver, shared_driver and   *)
(* shared_ref_count the class fields.  A driver is the number of the       *)
(* webdriver.Chrome object; drivers_made counts the objects created,       *)
(* quit_drivers holds those on which quit() was called, in_flight the      *)
(* instances whose _fetch_page_sync runs in a thread of the executor.      *)
(***************************************************************************)
VARIABLES made, driver, own_driver, shared_driver, shared_ref_count,
          drivers_made, quit_drivers, in_flight

(***************************************************************************)
(* One call of fetch_and_filter_listings seen from its parser calls        *)
(* (ParseSpec).  phase is where the call of each source's parse_listings   *)
(* stands, attempts the transports parse_listings has tried for the search *)
(* page with what they returned, returned the number of listings the       *)
(* parser call returned.                                                   *)
(***************************************************************************)
VARIABLES phase, attempts, returned

(***************************************************************************)
(* The pure functions checked on bounded inputs: url_call is the latest    *)
(* link an adapter's _parse_listing_from_container resolved with the url   *)
(* and listing_id of the record it built (UrlSpec), match_call the latest  *)
(* call of ListingFilter.matches with its verdict (MatchSpec), parser_call *)
(* the latest call of one of the parsers' extraction helpers with its      *)
(* arguments and what it returned (ExtractSpec).                           *)
(***************************************************************************)
VARIABLES url_call, match_call, parser_call

(***************************************************************************)
(* The table user_filters under any sequence of calls of its methods       *)
(* (FilterStoreSpec): filter_call is the latest call and what it returned. *)
(***************************************************************************)
VARIABLES filter_call

(***************************************************************************)
(* Two pipeline runs on the event loop that call the store (RaceSpec).     *)
(* task_pc is the statement each run stands at, running the run that       *)
(* holds the event loop's thread, task_read the sent_to_users a run's      *)
(* SELECT returned, task_new what its add_listing returned, task_listing   *)
(* the listing the run parsed from its page.                               *)
(***************************************************************************)
VARIABLES task_pc, running, task_read, task_new, task_listing

(***************************************************************************)
(* One call of SeleniumBaseParser._fetch_page_sync (ScrollSpec): its local *)
(* variables scrolls, last_height and new_height, the statement it stands  *)
(* at, and the number of times it has scrolled down.                       *)
(***************************************************************************)
VARIABLES scroll_pc, scrolls, last_height, new_height, iterations

pureVars == <<url_call, match_call, parser_call>>

filterVars == <<filter_call>>

raceVars == <<task_pc, running, task_read, task_new, task_listing>>

scrollVars == <<scroll_pc, scrolls, last_height, new_height, iterations>>

lateVars == <<filterVars, raceVars, scrollVars>>

storeVars == <<store_call, store_marked>>

parseVars == <<phase, attempts, returned>>

driverVars == <<made, driver, own_driver, shared_driver, shared_ref_count,
                drivers_made, quit_drivers, in_flight>>

sideVars == <<store_call, store_marked,
              made, driver, own_driver, shared_driver, shared_ref_count,
              drivers_made, quit_drivers, in_flight,
              phase, attempts, returned,
              url_call, match_call, parser_call,
              filter_call, task_pc, running, task_read, task_new, task_listing,
              scroll_pc, scrolls, last_height, new_height, iterations>>

jobVars == <<pc, cycle, cycle_result, users, user_idx, active_filters,
             filter_idx, all_listings, listings_to_send, send_idx,
             send_count, send_ok, cycle_sends, faults,
             matched_listings, last_outcome, dispatched, cut>>

vars == <<listings, user_filters,
          pc, cycle, cycle_result, users, user_idx, active_filters,
          filter_idx, all_listings, listings_to_send, send_idx,
          send_count, send_ok, cycle_sends, faults,
          matched_listings, last_outcome, dispatched, cut,
          store_call, store_marked,
          made, driver, own_driver, shared_driver, shared_ref_count,
          drivers_made, quit_drivers, in_flight,
          phase, attempts, returned,
          url_call, match_call, parser_call,
          filter_call, task_pc, running, task_read, task_new, task_listing,
          scroll_pc, scrolls, last_height, new_height, iterations>>

(* The side variables a specification of one component leaves alone. *)
besideStore == <<driverVars, parseVars, pureVars, lateVars>>

besideDriver == <<storeVars, parseVars, pureVars, lateVars>>

besideParse == <<storeVars, driverVars, pureVars, lateVars>>

besidePure == <<storeVars, driverVars, parseVars, lateVars>>

earlyVars == <<storeVars, driverVars, parseVars, pureVars>>

besideFilter == <<earlyVars, raceVars, scrollVars>>

besideRace == <<earlyVars, filterVars, scrollVars>>

besideScroll == <<earlyVars, filterVars, raceVars>>

Tasks == {"periodic", "scan"}

Instances == 1..NumInstances

NoCall ==
    [op |-> "none", listing |-> Listing(1), user_id |-> 0, error |-> FALSE,
     known |-> FALSE, result |-> FALSE, selected |-> FALSE]

StoreIdle ==
    /\ store_call = NoCall
    /\ store_marked = {}

(* Lines 25-26 and 35-36: the class fields and the fields of an instance  *)
(* before its constructor has looked for a driver.                        *)
DriverIdle ==
    /\ made = {}
    /\ driver = [i \in Instances |-> None]
    /\ own_driver = [i \in Instances |-> FALSE]
    /\ shared_driver = None
    /\ shared_ref_count = 0
    /\ drivers_made = 0
    /\ quit_drivers = {}
    /\ in_flight = {}

(* listing_service.py line 44: no parser has been called yet. *)
ParseIdle ==
    /\ phase = [src \in Sources |-> "pending"]
    /\ attempts = [src \in Sources |-> <<>>]
    /\ returned = [src \in Sources |-> 0]

(* No link has been resolved and no filter applied yet. *)
PureIdle ==
    /\ url_call = None
    /\ match_call = None
    /\ parser_call = None

(* No method of the filter table has been called. *)
FilterIdle == filter_call = None

(* Both runs await their page; the event loop's thread is free. *)
RaceIdle ==
    /\ task_pc = [t \in Tasks |-> "fetch"]
    /\ running = None
    /\ task_read = [t \in Tasks |-> None]
    /\ task_new = [t \in Tasks |-> None]
    /\ task_listing = [t \in Tasks |-> None]

(* _fetch_page_sync has not been called. *)
ScrollIdle ==
    /\ scroll_pc = "idle"
    /\ scrolls = 0
    /\ last_height = 0
    /\ new_height = 0
    /\ iterations = 0

SideIdle ==
    /\ StoreIdle /\ DriverIdle /\ ParseIdle /\ PureIdle
    /\ FilterIdle /\ RaceIdle /\ ScrollIdle

NoOutcome == [src \in {} |-> 0]

Ids(s) == [i \in 1..Len(s) |-> s[i].listing_id]

(* Lines 50-56: keep the first occurrence of every listing_id. *)
RECURSIVE Unique(_, _, _)
Unique(s, k, acc) ==
    IF k > Len(s) THEN acc
    ELSE Unique(s, k + 1,
                IF s[k].listing_id \in Range(Ids(acc)) THEN acc
                ELSE Append(acc, s[k]))

(* Mutant of CapToSend: no cap at the send loop. *)
CapToSendAll(unique) == unique

(* Line 59: unique_listings[-15:] if len(unique_listings) > 15 *)
CapToSend(unique) == LastN(unique, SendCap)

JobInit ==
    /\ listings = [x \in {} |-> 0]
    /\ user_filters = InitUserFilters
    /\ pc = "idle"
    /\ cycle = 0
    /\ cycle_result = "none"
    /\ users = <<>>
    /\ user_idx = 0
    /\ active_filters = <<>>
    /\ filter_idx = 0
    /\ all_listings = <<>>
    /\ listings_to_send = <<>>
    /\ send_idx = 0
    /\ send_count = [p \in ListingIds \X Users |-> 0]
    /\ send_ok = {}
    /\ cycle_sends = [u \in Users |-> 0]
    /\ faults = 0
    /\ matched_listings = <<>>
    /\ last_outcome = NoOutcome
    /\ dispatched = [u \in {} |-> <<>>]
    /\ cut = {}

Init == JobInit /\ SideIdle

(* Lines 34-38: the next index from j on whose user has active filters;   *)
(* 0 when the loop over users is exhausted.                                *)
RECURSIVE NextWithFilters(_, _, _)
NextWithFilters(us, j, uf) ==
    IF j > Len(us) THEN 0
    ELSE IF get_active_filters_for_user(uf, us[j]) = <<>>
         THEN NextWithFilters(us, j + 1, uf)
         ELSE j

(* Continue the loop over users at index j, or end the run. *)
EnterUser(us, j) ==
    LET n == NextWithFilters(us, j, user_filters)
    IN  /\ pc' = IF n = 0 THEN "idle" ELSE "fetch"
        /\ cycle_result' = IF n = 0 THEN "completed" ELSE "running"
        /\ user_idx' = n
        /\ active_filters' =
              IF n = 0 THEN <<>>
              ELSE get_active_filters_for_user(user_filters, us[n])
        /\ filter_idx' = IF n = 0 THEN 0 ELSE 1
        /\ all_listings' = <<>>
        /\ listings_to_send' = <<>>
        /\ send_idx' = 0
        /\ matched_listings' = <<>>
        /\ last_outcome' = NoOutcome

(* The exception leaves periodic_check: the run is over. *)
Escape ==
    /\ pc' = "idle"
    /\ cycle_result' = "raised"
    /\ user_idx' = 0
    /\ active_filters' = <<>>
    /\ filter_idx' = 0
    /\ all_listings' = <<>>
    /\ listings_to_send' = <<>>
    /\ send_idx' = 0
    /\ matched_listings' = <<>>
    /\ last_outcome' = NoOutcome

(* Lines 30-32 with the store reachable. *)
StartCycle ==
    /\ pc = "idle"
    /\ cycle < MaxCycles
    /\ cycle' = cycle + 1
    /\ \E us \in get_all_users_with_filters(user_filters) :
          /\ users' = us
          /\ EnterUser(us, 1)
    /\ cycle_sends' = [u \in Users |-> 0]
    /\ dispatched' = [u \in {} |-> <<>>]
    /\ UNCHANGED <<listings, user_filters, send_count, send_ok, faults, cut>>
    /\ UNCHANGED sideVars

(* Line 30 when sqlite fails inside init_database, which logs and          *)
(* re-raises: Database(...) is outside every try of periodic_check.        *)
StartCycleStoreError ==
    /\ pc = "idle"
    /\ cycle < MaxCycles
    /\ faults < MaxFaults
    /\ faults' = faults + 1
    /\ cycle' = cycle + 1
    /\ users' = <<>>
    /\ Escape
    /\ cycle_sends' = [u \in Users |-> 0]
    /\ dispatched' = [u \in {} |-> <<>>]
    /\ UNCHANGED <<listings, user_filters, send_count, send_ok, cut>>
    /\ UNCHANGED sideVars

(* Lines 42-48: one call of the service for the current filter. *)
Fetch ==
    /\ pc = "fetch"
    /\ \E faulty \in {b \in BOOLEAN : b => faults < MaxFaults} :
       \E o \in Outcomes(faulty) :
          LET r == fetch_and_filter_listings(
                      active_filters[filter_idx].filters,
                      users[user_idx], o, listings)
          IN  /\ listings' = r.table
              /\ faults' = IF faulty THEN faults + 1 ELSE faults
              /\ IF r.raised
                 THEN Escape
                 ELSE /\ all_listings' = all_listings \o r.result
                      /\ matched_listings' =
                            matched_listings \o r.filtered_listings
                      /\ last_outcome' = o
                      /\ filter_idx' = filter_idx + 1
                      /\ pc' = IF filter_idx < Len(active_filters)
                               THEN "fetch" ELSE "dispatch"
                      /\ UNCHANGED <<cycle_result, user_idx, active_filters,
                                     listings_to_send, send_idx>>
    /\ UNCHANGED <<user_filters, cycle, users, send_count, send_ok,
                   cycle_sends, dispatched, cut>>
    /\ UNCHANGED sideVars

(* Lines 50-61. *)
Dispatch ==
    /\ pc = "dispatch"
    /\ LET unique_listings == Unique(all_listings, 1, <<>>)
           to_send == CapToSend(unique_listings)
           u == users[user_idx]
           wanted == Range(Ids(matched_listings))
       IN  /\ dispatched' =
                 [x \in DOMAIN dispatched \cup {u} |->
                     IF x = u THEN Ids(to_send) ELSE dispatched[x]]
           /\ cut' = cut \cup
                 {<<l, u, cycle>> : l \in wanted \ Range(Ids(to_send))}
           /\ IF to_send = <<>>
              THEN EnterUser(users, user_idx + 1)
              ELSE /\ pc' = "send"
                   /\ listings_to_send' = to_send
                   /\ send_idx' = 1
                   /\ last_outcome' = NoOutcome
                   /\ UNCHANGED <<cycle_result, user_idx, active_filters,
                                  filter_idx, all_listings, matched_listings>>
    /\ UNCHANGED <<listings, user_filters, cycle, users, send_count, send_ok,
                   cycle_sends, faults>>
    /\ UNCHANGED sideVars

(* The end of one iteration of the send loop (line 62). *)
AfterSend ==
    IF send_idx < Len(listings_to_send)
    THEN /\ send_idx' = send_idx + 1
         /\ UNCHANGED <<pc, cycle_result, user_idx, active_filters,
                        filter_idx, all_listings, listings_to_send,
                        matched_listings, last_outcome>>
    ELSE EnterUser(users, user_idx + 1)

(* Mutant of ExceptSend: the exception of the send leaves the job. *)
ExceptSendRaise == Escape

(* Lines 73-74: the except branch logs and the loop goes on. *)
ExceptSend == AfterSend

(* Mutant of AfterFailedSend: the mark is written before the send. *)
AfterFailedSendMarked(table, listing_id, user_id) ==
    mark_listing_sent(table, listing_id, user_id)

(* The table after a send that raised: line 71 is skipped. *)
AfterFailedSend(table, listing_id, user_id) == table

(* Lines 63-72: send_message returned, then mark_listing_sent. *)
SendOk ==
    /\ pc = "send"
    /\ LET l == listings_to_send[send_idx].listing_id
           u == users[user_idx]
       IN  /\ send_count' = [send_count EXCEPT ![<<l, u>>] = @ + 1]
           /\ cycle_sends' = [cycle_sends EXCEPT ![u] = @ + 1]
           /\ send_ok' = send_ok \cup {<<l, u>>}
           /\ listings' = mark_listing_sent(listings, l, u)
    /\ AfterSend
    /\ UNCHANGED <<user_filters, cycle, users, faults, dispatched, cut>>
    /\ UNCHANGED sideVars

(* Lines 63-74: send_message raised; the except branch logs. *)
SendFail ==
    /\ pc = "send"
    /\ faults < MaxFaults
    /\ LET l == listings_to_send[send_idx].listing_id
           u == users[user_idx]
       IN  /\ send_count' = [send_count EXCEPT ![<<l, u>>] = @ + 1]
           /\ cycle_sends' = [cycle_sends EXCEPT ![u] = @ + 1]
           /\ listings' = AfterFailedSend(listings, l, u)
    /\ faults' = faults + 1
    /\ ExceptSend
    /\ UNCHANGED <<user_filters, cycle, users, send_ok, dispatched, cut>>
    /\ UNCHANGED sideVars

Next ==
    \/ StartCycle
    \/ StartCycleStoreError
    \/ Fetch
    \/ Dispatch
    \/ SendOk
    \/ SendFail

Spec == Init /\ [][Next]_vars

(***************************************************************************)
(* Properties.                                                             *)
(***************************************************************************)
Sent(l) == IF l \in DOMAIN listings THEN Range(listings[l].sent_to_users) ELSE {}

(* A service call has just returned for the current recipient. *)
AfterCall == pc \in {"fetch", "dispatch"} /\ last_outcome # NoOutcome

CallUser == users[user_idx]

CallFilters == active_filters[filter_idx - 1].filters

(* The listings the latest call fetched that match its filter. *)
FetchedMatching ==
    {l \in Range(FetchAll(last_outcome)) : matches(CallFilters, l) = "true"}

(* Selected for the current recipient in this run, before any cap. *)
SelectedIds == Range(Ids(matched_listings))

FailedPairs ==
    {p \in ListingIds \X Users : send_count[p] >= 1 /\ p \notin send_ok}

(* C1: over any number of runs of periodic_check, send_message is called   *)
(* at most once for each (listing, recipient) pair.                        *)
AtMostOnceDelivery ==
    \A p \in ListingIds \X Users : send_count[p] <= 1

(* A listing already sent to the recipient in an earlier run is fetched    *)
(* again and matches.                                                      *)
AtMostOnceWitness ==
    /\ AfterCall
    /\ cycle >= 2
    /\ \E l \in FetchedMatching :
          /\ send_count[<<l.listing_id, CallUser>>] = 1
          /\ <<l.listing_id, CallUser>> \in send_ok

(* C2: a fetched listing that matches an active filter of the recipient    *)
(* and is not yet delivered to that recipient is selected for the          *)
(* recipient, also when the store already holds it.                        *)
PerRecipientEligibility ==
    AfterCall =>
        \A l \in FetchedMatching :
            CallUser \notin Sent(l.listing_id) => l.listing_id \in SelectedIds

(* C3: a pair whose send failed stays unmarked and is selected again when  *)
(* the listing is fetched again and matches.                               *)
RetryAfterFailure ==
    /\ \A p \in FailedPairs : p[2] \notin Sent(p[1])
    /\ AfterCall =>
          \A l \in FetchedMatching :
              <<l.listing_id, CallUser>> \in FailedPairs
                  => l.listing_id \in SelectedIds

(* C4: a listing a cap dropped for a recipient stays unmarked for that     *)
(* recipient and is selected again in a later run that fetches it.         *)
CapRemainderPending ==
    /\ \A c \in cut : c[2] \notin Sent(c[1])
    /\ AfterCall =>
          \A l \in FetchedMatching :
              (\E c \in cut : /\ c[1] = l.listing_id
                              /\ c[2] = CallUser
                              /\ c[3] < cycle)
                  => l.listing_id \in SelectedIds

(* C5: when more than 15 listings are selected for a recipient in one run, *)
(* the listings sent are the last 15 of them in fetch order.               *)
CapOrdering ==
    (pc = "send" /\ Len(Unique(matched_listings, 1, <<>>)) > SendCap) =>
        Ids(listings_to_send) =
            Ids(LastN(Unique(matched_listings, 1, <<>>), SendCap))

(* C6: at most 15 listings are sent to one recipient in one run.           *)
CapBound ==
    \A u \in Users : cycle_sends[u] <= SendCap

(* A recipient with two active filters got 15 sends while a cap dropped    *)
(* further listings selected for it in the same run.                       *)
CapBoundWitness ==
    \E u \in Users :
        /\ cycle_sends[u] = SendCap
        /\ Len(get_active_filters_for_user(user_filters, u)) > 1
        /\ \E c \in cut : c[2] = u /\ c[3] = cycle

(* C7: a recipient enters a listing's sent set only in a step in which the *)
(* send for that pair returned; a step in which no send returned leaves    *)
(* every sent set unchanged.                                               *)
DeliverThenMark ==
    [][\A l \in ListingIds : \A u \in Users :
          (u \in Sent(l)' /\ u \notin Sent(l))
              => (<<l, u>> \in send_ok' /\ <<l, u>> \notin send_ok)]_vars

(* One send has failed and its pair is unmarked, another has been marked.  *)
DeliverThenMarkWitness ==
    /\ \E p \in FailedPairs : p[2] \notin Sent(p[1])
    /\ \E p \in send_ok : p[2] \in Sent(p[1])

(* C8: when a source raises or returns nothing, the call still returns:    *)
(* every matching listing of the sources that answered is in the store     *)
(* afterwards, and the first 15 new ones are returned for delivery.        *)
AnsweredMatching(outcome, filters) ==
    SelectSeq(Catalogue("Onliner") \o Catalogue("Realt.by")
                  \o Catalogue("Domovita"),
              LAMBDA l : /\ outcome[l.source] # Raised
                         /\ outcome[l.source] > 0
                         /\ matches(filters, l) = "true")

NewOf(s, table) == SelectSeq(s, LAMBDA l : l.listing_id \notin DOMAIN table)

SourceIsolation ==
    [][pc = "fetch" =>
          LET answered == AnsweredMatching(last_outcome',
                                           active_filters[filter_idx].filters)
          IN  /\ cycle_result' # "raised"
              /\ last_outcome' # NoOutcome
              /\ \A l \in Range(answered) : l.listing_id \in DOMAIN listings'
              /\ all_listings' =
                    all_listings \o FirstN(NewOf(answered, listings), ServiceCap)
      ]_vars

(* Onliner raised next to Kufar, and a listing of Realt.by was selected.   *)
SourceIsolationWitness ==
    /\ AfterCall
    /\ last_outcome["Onliner"] = Raised
    /\ last_outcome["Kufar"] = Raised
    /\ \E l \in Range(matched_listings) : l.source = "Realt.by"
    /\ \E l \in Range(all_listings) : l.source = "Domovita"

(* C9: a send that raises does not end the run: the loop goes on with the  *)
(* next listing or the next recipient, and at the end of a run every       *)
(* listing chosen for a recipient has had its send.                        *)
FailedSendStep ==
    pc = "send" /\ send_count' # send_count /\ send_ok' = send_ok

AllAttempted ==
    (pc = "idle" /\ cycle_result = "completed") =>
        \A u \in Range(users) :
            /\ u \in DOMAIN dispatched
            /\ \A l \in Range(dispatched[u]) : send_count[<<l, u>>] >= 1

DeliveryErrorIsolation ==
    /\ []AllAttempted
    /\ [][FailedSendStep =>
             /\ cycle_result' # "raised"
             /\ pc' \in {"send", "fetch"} \/ cycle_result' = "completed"
         ]_vars

(* A run ended in which a send to the first recipient failed, a later      *)
(* listing of that recipient was sent, and the recipient after it got its  *)
(* listings.                                                               *)
DeliveryErrorIsolationWitness ==
    /\ pc = "idle"
    /\ cycle_result = "completed"
    /\ Len(users) = 2
    /\ \E i, j \in DOMAIN dispatched[users[1]] :
          /\ i < j
          /\ <<dispatched[users[1]][i], users[1]>> \in FailedPairs
          /\ <<dispatched[users[1]][j], users[1]>> \in send_ok
    /\ dispatched[users[2]] # <<>>
    /\ \A l \in Range(dispatched[users[2]]) : <<l, users[2]>> \in send_ok

(* C10: no exception leaves periodic_check.                                *)
NoErrorEscapes == cycle_result # "raised"

(***************************************************************************)
(* The dedup store under any sequence of calls.                            *)
(*                                                                         *)
(* The callers of the store are the loop body of fetch_and_filter_listings *)
(* (add_listing, is_listing_sent_to_user) and the send loops               *)
(* (mark_listing_sent).  Every call opens its own connection and may fail  *)
(* with sqlite3.Error on its own.  A source may publish a listing again    *)
(* under the same URL with other field values.  In store_call, known tells *)
(* whether the store already held what the call writes: the listing_id for *)
(* add_listing, the recipient in the row's list for mark_listing_sent.     *)
(***************************************************************************)
StoreIds == 1..MaxStoreIds

Relisted(i) ==
    [Listing(i) EXCEPT !.address = "Minsk",
                       !.rooms = Some(3),
                       !.price_usd = Some(250)]

StoreInputs == {Listing(i) : i \in StoreIds} \cup {Relisted(i) : i \in StoreIds}

(* listing_service.py lines 80-97 for one fetched listing. *)
ObserveListing ==
    /\ \E u \in Users :
       \E f \in Range(get_active_filters_for_user(user_filters, u)) :
       \E l \in StoreInputs :
       \E error \in BOOLEAN :
          /\ matches(f.filters, l) = "true"
          /\ LET a == Observe(listings, l, u, error)
             IN  /\ listings' = a.table
                 /\ store_call' =
                       [op |-> "add_listing", listing |-> l, user_id |-> u,
                        error |-> error,
                        known |-> l.listing_id \in DOMAIN listings,
                        result |-> a.is_new, selected |-> a.selected]
    /\ UNCHANGED <<user_filters, store_marked>>
    /\ UNCHANGED jobVars
    /\ UNCHANGED besideStore

(* Database.mark_listing_sent, with the except branch of lines 187-188. *)
MarkListingSent ==
    /\ \E l \in StoreIds : \E u \in Users : \E error \in BOOLEAN :
          /\ listings' = IF error THEN listings
                         ELSE mark_listing_sent(listings, l, u)
          /\ store_marked' = IF ~error /\ l \in DOMAIN listings
                             THEN store_marked \cup {<<l, u>>}
                             ELSE store_marked
          /\ store_call' =
                [op |-> "mark_listing_sent", listing |-> Listing(l),
                 user_id |-> u, error |-> error,
                 known |-> is_listing_sent_to_user(listings, l, u),
                 result |-> FALSE, selected |-> FALSE]
    /\ UNCHANGED user_filters
    /\ UNCHANGED jobVars
    /\ UNCHANGED besideStore

(* Database.is_listing_sent_to_user. *)
IsListingSentToUser ==
    /\ \E l \in StoreIds : \E u \in Users :
          store_call' =
             [op |-> "is_listing_sent_to_user", listing |-> Listing(l),
              user_id |-> u, error |-> FALSE, known |-> FALSE,
              result |-> is_listing_sent_to_user(listings, l, u),
              selected |-> FALSE]
    /\ UNCHANGED <<listings, user_filters, store_marked>>
    /\ UNCHANGED jobVars
    /\ UNCHANGED besideStore

StoreNext ==
    \/ ObserveListing
    \/ MarkListingSent
    \/ IsListingSentToUser

StoreSpec == Init /\ [][StoreNext]_vars

Fields(x) ==
    [source |-> x.source, address |-> x.address, rooms |-> x.rooms,
     price_usd |-> x.price_usd, landlord |-> x.landlord]

CalledId == store_call'.listing.listing_id

(* C11: an add_listing call for a listing_id the store does not hold, and  *)
(* that reaches the store, returns True and persists the record with the   *)
(* fields given and an empty sent list; every add_listing call for a       *)
(* stored listing_id, with the same or other field values, returns False   *)
(* and leaves the whole table unchanged, the stored fields and the sent    *)
(* list of the record included.                                            *)
FirstWriteWins ==
    [][(store_call'.op = "add_listing") =>
          /\ ((CalledId \in DOMAIN listings) =>
                 (/\ store_call'.result = FALSE
                  /\ listings' = listings))
          /\ ((CalledId \notin DOMAIN listings /\ ~store_call'.error) =>
                 (/\ store_call'.result = TRUE
                  /\ DOMAIN listings' = DOMAIN listings \cup {CalledId}
                  /\ Fields(listings'[CalledId]) = Fields(store_call'.listing)
                  /\ listings'[CalledId].sent_to_users = <<>>
                  /\ \A x \in DOMAIN listings : listings'[x] = listings[x]))
      ]_vars

(* A stored listing with a marked recipient has been offered again with    *)
(* other field values, and the call returned False.                        *)
FirstWriteWinsWitness ==
    /\ store_call.op = "add_listing"
    /\ ~store_call.error
    /\ store_call.result = FALSE
    /\ store_call.listing.listing_id \in DOMAIN listings
    /\ Fields(listings[store_call.listing.listing_id])
          # Fields(store_call.listing)
    /\ listings[store_call.listing.listing_id].sent_to_users # <<>>

(* C12: an add_listing call in which the storage layer raises returns      *)
(* False, creates no record, and the loop body does not select the listing *)
(* for delivery.                                                           *)
ObserveFailsClosed ==
    [][(store_call'.op = "add_listing" /\ store_call'.error) =>
          /\ store_call'.result = FALSE
          /\ listings' = listings
          /\ store_call'.selected = FALSE
      ]_vars

(* The storage layer raised for a listing the store does not hold, which   *)
(* a call without the error would have selected.                           *)
ObserveFailsClosedWitness ==
    /\ store_call.op = "add_listing"
    /\ store_call.error
    /\ ~store_call.known
    /\ store_call.listing.listing_id \notin DOMAIN listings

(* C13: no call removes a record or a recipient from a record's sent list; *)
(* marking a recipient the list already holds changes nothing; and after   *)
(* mark_listing_sent completed for a stored listing and a recipient,       *)
(* is_listing_sent_to_user is True for the pair in every later state.      *)
MarkedStaySent ==
    \A p \in store_marked : is_listing_sent_to_user(listings, p[1], p[2])

setup_driver(ok) ==
    IF ok /\ drivers_made < MaxDrivers
    THEN [driver |-> Some(drivers_made + 1), drivers_made |-> drivers_made + 1]
    ELSE [driver |-> None, drivers_made |-> drivers_made]

(* _use_shared_driver of instance i (lines 42-51). *)
use_shared_driver(i, ok) ==
    IF shared_driver = None
    THEN LET d == setup_driver(ok)
         IN  /\ driver' = [driver EXCEPT ![i] = d.driver]
             /\ drivers_made' = d.drivers_made
             /\ IF d.driver # None
                THEN /\ shared_driver' = d.driver
                     /\ shared_ref_count' = 1
                ELSE UNCHANGED <<shared_driver, shared_ref_count>>
    ELSE /\ driver' = [driver EXCEPT ![i] = shared_driver]
         /\ shared_ref_count' = shared_ref_count + 1
         /\ UNCHANGED <<shared_driver, drivers_made>>

(* The own driver of instance i (lines 40 and 106). *)
use_own_driver(i, ok) ==
    LET d == setup_driver(ok)
    IN  /\ driver' = [driver EXCEPT ![i] = d.driver]
        /\ drivers_made' = d.drivers_made
        /\ UNCHANGED <<shared_driver, shared_ref_count>>

(* __init__ (lines 28-40). *)
Construct ==
    /\ \E i \in Instances \ made : \E shared \in BOOLEAN : \E ok \in BOOLEAN :
          /\ made' = made \cup {i}
          /\ own_driver' = [own_driver EXCEPT ![i] = ~shared]
          /\ IF shared THEN use_shared_driver(i, ok) ELSE use_own_driver(i, ok)
    /\ UNCHANGED <<quit_drivers, in_flight>>
    /\ UNCHANGED <<listings, user_filters>>
    /\ UNCHANGED jobVars
    /\ UNCHANGED besideDriver

(* fetch_page_selenium up to run_in_executor (lines 104-122).  No lock is  *)
(* taken before _fetch_page_sync is handed to the executor.                *)
FetchPageSelenium ==
    /\ \E i \in made \ in_flight : \E ok \in BOOLEAN :
          /\ IF driver[i] = None
             THEN IF own_driver[i] THEN use_own_driver(i, ok)
                  ELSE use_shared_driver(i, ok)
             ELSE UNCHANGED <<driver, shared_driver, shared_ref_count,
                              drivers_made>>
          /\ IF driver'[i] = None
             THEN UNCHANGED in_flight
             ELSE in_flight' = in_flight \cup {i}
    /\ UNCHANGED <<made, own_driver, quit_drivers>>
    /\ UNCHANGED <<listings, user_filters>>
    /\ UNCHANGED jobVars
    /\ UNCHANGED besideDriver

(* _fetch_page_sync returned and fetch_page_selenium returns (line 123). *)
FetchReturn ==
    /\ \E i \in in_flight : in_flight' = in_flight \ {i}
    /\ UNCHANGED <<made, driver, own_driver, shared_driver, shared_ref_count,
                   drivers_made, quit_drivers>>
    /\ UNCHANGED <<listings, user_filters>>
    /\ UNCHANGED jobVars
    /\ UNCHANGED besideDriver

(* Mutant of closed: close does not look at the driver field first. *)
closed_never(i) == FALSE

(* Lines 182-183: close returns at once on an instance without a driver. *)
closed(i) == driver[i] = None

Max0(n) == IF n < 0 THEN 0 ELSE n

(* close (lines 180-199), also reached from __del__. *)
Close ==
    /\ \E i \in made \ in_flight :
          IF closed(i)
          THEN UNCHANGED <<driver, shared_driver, shared_ref_count,
                           quit_drivers>>
          ELSE IF own_driver[i]
          THEN /\ quit_drivers' = quit_drivers \cup Range(driver[i])
               /\ driver' = [driver EXCEPT ![i] = None]
               /\ UNCHANGED <<shared_driver, shared_ref_count>>
          ELSE /\ shared_ref_count' = Max0(shared_ref_count - 1)
               /\ driver' = [driver EXCEPT ![i] = None]
               /\ IF shared_ref_count' = 0 /\ shared_driver # None
                  THEN /\ quit_drivers' = quit_drivers \cup Range(shared_driver)
                       /\ shared_driver' = None
                  ELSE UNCHANGED <<shared_driver, quit_drivers>>
    /\ UNCHANGED <<made, own_driver, drivers_made, in_flight>>
    /\ UNCHANGED <<listings, user_filters>>
    /\ UNCHANGED jobVars
    /\ UNCHANGED besideDriver

DriverNext ==
    \/ Construct
    \/ FetchPageSelenium
    \/ FetchReturn
    \/ Close

DriverSpec == Init /\ [][DriverNext]_vars

(* The instances that took their driver from the class. *)
Holders == {i \in made : ~own_driver[i] /\ driver[i] # None}

(* C14: an instance that holds the shared driver holds the driver the      *)
(* class field names, that driver has not been quit, and the count is at   *)
(* least the number of holders; the shared driver is quit only in a close  *)
(* that brings the count from 1 to 0.                                      *)
HoldersCounted ==
    /\ \A i \in Holders :
          /\ driver[i] = shared_driver
          /\ driver[i][1] \notin quit_drivers
    /\ shared_ref_count >= Cardinality(Holders)

SharedDriverRefCounted ==
    /\ []HoldersCounted
    /\ [][\A d \in quit_drivers' \ quit_drivers :
             (shared_driver = Some(d)) =>
                 (/\ shared_ref_count = 1
                  /\ shared_ref_count' = 0
                  /\ Holders' = {})
        ]_vars

(* Two instances hold the shared driver after a third one that held it     *)
(* was closed, closed again, and one instance took the driver again in     *)
(* fetch_page_selenium.                                                    *)
SharedDriverRefCountedWitness ==
    /\ Cardinality(Holders) = 2
    /\ shared_ref_count = 2
    /\ made = Instances
    /\ \E i \in made : ~own_driver[i] /\ driver[i] = None
    /\ \E i \in Holders : i \in in_flight
    /\ quit_drivers # {}

(* C15: no two _fetch_page_sync executions are in flight on one driver.    *)
SerializedNavigation ==
    \A i \in in_flight : \A j \in in_flight :
        (i # j) => (driver[i] # driver[j])

(***************************************************************************)
(* The parser calls of one call of fetch_and_filter_listings (lines        *)
(* 49-76) and the transports each parse_listings tries for its search      *)
(* page.  ListingService builds the four parsers without a selenium_parser *)
(* argument (lines 24-27): OnlinerParser and KufarParser then make their   *)
(* own SeleniumBaseParser, RealtParser and DomovitaParser have none, so    *)
(* their fetch_page_prefer_browser is fetch_page.                          *)
(***************************************************************************)
SourceOrder == <<"Onliner", "Kufar", "Realt.by", "Domovita">>

(* Mutant of Transports: the HTTP fetch first, the browser as fallback. *)
TransportsHttpFirst(src) ==
    CASE src = "Onliner" -> <<"http", "browser">>
      [] src = "Kufar" -> <<"http", "browser">>
      [] OTHER -> <<"http">>

(* The transports parse_listings tries, in the order it tries them:        *)
(* onliner.py lines 40-43, kufar.py lines 45-48, realt.py line 33 and      *)
(* domovita.py line 31 through base.py lines 64-66.                        *)
Transports(src) ==
    CASE src = "Onliner" -> <<"browser", "http">>
      [] src = "Kufar" -> <<"browser", "http">>
      [] OTHER -> <<"http">>

(* listing_service.py line 58 passes city=..., which the signature of      *)
(* KufarParser.parse_listings (kufar.py line 28) does not take: the call   *)
(* raises TypeError before the body runs.                                  *)
CallRaises(src) == src = "Kufar"

HasHtml(src) == \E k \in DOMAIN attempts[src] : attempts[src][k].ok

Finished(src) == phase[src] \in {"returned", "raised"}

(* The service reaches the await of the parser call of src: the calls      *)
(* before it in the function have finished.                                *)
StartParse(src) ==
    /\ phase[src] = "pending"
    /\ \E k \in DOMAIN SourceOrder :
          /\ SourceOrder[k] = src
          /\ \A j \in 1..(k - 1) : Finished(SourceOrder[j])
    /\ phase' = [phase EXCEPT ![src] =
                    IF CallRaises(src) THEN "raised" ELSE "running"]
    /\ UNCHANGED <<attempts, returned>>
    /\ UNCHANGED <<listings, user_filters>>
    /\ UNCHANGED jobVars
    /\ UNCHANGED besideParse

(* parse_listings tries its next transport; it returns html or None. *)
TryTransport(src) ==
    /\ phase[src] = "running"
    /\ ~HasHtml(src)
    /\ Len(attempts[src]) < Len(Transports(src))
    /\ \E ok \in BOOLEAN :
          attempts' = [attempts EXCEPT ![src] =
                         Append(@, [transport |->
                                        Transports(src)[Len(@) + 1],
                                    ok |-> ok])]
    /\ UNCHANGED <<phase, returned>>
    /\ UNCHANGED <<listings, user_filters>>
    /\ UNCHANGED jobVars
    /\ UNCHANGED besideParse

(* parse_listings returns [] without html, else the listings it parsed,    *)
(* or it raises while parsing.                                             *)
FinishParse(src) ==
    /\ phase[src] = "running"
    /\ HasHtml(src) \/ Len(attempts[src]) = Len(Transports(src))
    /\ \E n \in (IF HasHtml(src) THEN {Raised} \cup (0..MaxPage) ELSE {0}) :
          /\ phase' = [phase EXCEPT ![src] =
                          IF n = Raised THEN "raised" ELSE "returned"]
          /\ returned' = [returned EXCEPT ![src] =
                             IF n = Raised THEN 0 ELSE n]
    /\ UNCHANGED attempts
    /\ UNCHANGED <<listings, user_filters>>
    /\ UNCHANGED jobVars
    /\ UNCHANGED besideParse

ParseNext ==
    \/ \E src \in Sources : StartParse(src)
    \/ \E src \in Sources : TryTransport(src)
    \/ \E src \in Sources : FinishParse(src)

ParseSpec == Init /\ [][ParseNext]_vars

(* C27: in a run of fetch_and_filter_listings every one of the four        *)
(* adapters is actually invoked: when the four calls are over, the body of *)
(* each parse_listings has run and tried to fetch its page.                *)
EveryAdapterTakesPart ==
    (\A src \in Sources : Finished(src)) =>
        (\A src \in Sources : attempts[src] # <<>>)

ConcurrentFanOut ==
    \A a \in Sources : \A b \in Sources :
        (phase[a] = "running" /\ phase[b] = "pending")
            => ENABLED StartParse(b)


(***************************************************************************)
(* The link of a listing card, as _parse_listing_from_container of each    *)
(* adapter resolves it (UrlSpec).  An href is the sequence of its pieces:  *)
(* "S" the scheme and host ('https://re.kufar.by'), "M" the marker of a    *)
(* listing path with its two slashes ('/v/', '/ak/apartments/',            *)
(* '/object/'), "/" one slash, "7" a digit, "x" a letter, "?" and "#" the  *)
(* characters that open a query string and a fragment.                     *)
(***************************************************************************)
MaxPath == 2

MaxSuffix == 2

SeqsUpTo(S, n) == UNION {[1..k -> S] : k \in 1..n}

(* The links drawn: with or without scheme and host, then a path. *)
Hrefs ==
    {prefix \o path : prefix \in {<<>>, <<"S">>},
                      path \in SeqsUpTo({"M", "7", "x"}, MaxPath)}

(* A query string, a fragment or both, or nothing. *)
Suffixes ==
    {<<>>} \cup
    {<<open>> \o rest : open \in {"?", "#"},
                        rest \in {<<>>} \cup
                                 SeqsUpTo({"x", "7", "?", "#"}, MaxSuffix - 1)}

HasPiece(href, piece) == \E i \in 1..Len(href) : href[i] = piece

(* str.split(piece)[0] *)
split_first(href, piece) ==
    IF HasPiece(href, piece)
    THEN SubSeq(href, 1,
                (CHOOSE i \in 1..Len(href) :
                    /\ href[i] = piece
                    /\ \A j \in 1..(i - 1) : href[j] # piece) - 1)
    ELSE href

(* str.split(piece)[1], for an href that holds the piece *)
split_second(href, piece) ==
    LET first == CHOOSE i \in 1..Len(href) :
                     /\ href[i] = piece
                     /\ \A j \in 1..(i - 1) : href[j] # piece
    IN  split_first(SubSeq(href, first + 1, Len(href)), piece)

(* href.lstrip('/'): the marker opens with a slash, which goes as well. *)
RECURSIVE lstrip(_)
lstrip(href) ==
    IF href # <<>> /\ href[1] = "/" THEN lstrip(Tail(href)) ELSE href

(* if not href.startswith('http'): href = 'https://<site>/' + href.lstrip('/') *)
full_url(href) ==
    IF href # <<>> /\ href[1] = "S"
    THEN href
    ELSE LET rest == lstrip(href)
         IN  IF rest # <<>> /\ rest[1] = "M"
             THEN <<"S">> \o rest
             ELSE <<"S", "/">> \o rest

(* href.split('?')[0] and then href.split('#')[0] *)
strip_params(href) == split_first(split_first(href, "?"), "#")

isdigit(piece) == piece = "7"

(* ''.join(c for c in listing_path if c.isdigit()) *)
digits(listing_path) == SelectSeq(listing_path, isdigit)

(* The url of the search page the containers were cut from. *)
base_url == <<"S", "/">>

(* hashlib.md5(href.encode()).hexdigest(): one digest per url. *)
md5(href) == <<"md5">> \o href

(* The fields of the record that identify the listing. *)
UrlRecord(href) == Some([url |-> href, listing_id |-> md5(href)])

onliner_container(raw) ==
    LET abs == full_url(raw)
        href == IF HasPiece(abs, "M")
                THEN <<"S", "M">> \o strip_params(split_second(abs, "M"))
                ELSE abs
    IN  IF href = <<>> \/ href = base_url \/ ~HasPiece(href, "M")
        THEN None
        ELSE UrlRecord(href)

kufar_container(raw) ==
    LET abs == full_url(raw)
        listing_id_clean ==
            IF HasPiece(abs, "M")
            THEN digits(strip_params(split_second(abs, "M")))
            ELSE <<>>
        href == IF HasPiece(abs, "M") THEN <<"S", "M">> \o listing_id_clean
                                 ELSE abs
    IN  IF HasPiece(abs, "M") /\ listing_id_clean = <<>>
        THEN None
        ELSE IF href = <<>> \/ href = base_url
        THEN None
        ELSE UrlRecord(href)

realt_container(raw) ==
    LET abs == full_url(raw)
        href == IF HasPiece(abs, "M") THEN strip_params(abs) ELSE abs
    IN  IF href = <<>> \/ href = base_url
        THEN None
        ELSE IF ~HasPiece(href, "M")
        THEN None
        ELSE IF ~\E i \in 1..(Len(href) - 1) :
                    href[i] = "M" /\ isdigit(href[i + 1])
        THEN None
        ELSE UrlRecord(href)

domovita_container(raw) ==
    LET href == strip_params(full_url(raw))
    IN  IF href = <<>> \/ href = base_url \/ ~HasPiece(href, "M")
        THEN None
        ELSE UrlRecord(href)

parse_listing_from_container(src, raw) ==
    CASE src = "Onliner"  -> onliner_container(raw)
      [] src = "Kufar"    -> kufar_container(raw)
      [] src = "Realt.by" -> realt_container(raw)
      [] src = "Domovita" -> domovita_container(raw)

(* Two fetches of one card of a source: the link as it is, and the same    *)
(* link followed by a query string, a fragment or both.                    *)
ParseContainer ==
    /\ url_call = None
    /\ \E src \in Sources, raw \in Hrefs, suffix \in Suffixes :
        /\ url_call' = Some([source |-> src, href |-> raw, suffix |-> suffix,
                             plain |-> parse_listing_from_container(src, raw),
                             suffixed |-> parse_listing_from_container(
                                              src, raw \o suffix)])
        /\ UNCHANGED <<match_call, parser_call>>
        /\ UNCHANGED <<listings, user_filters>>
        /\ UNCHANGED jobVars
        /\ UNCHANGED besidePure

UrlNext == ParseContainer

UrlSpec == Init /\ [][UrlNext]_vars

(* C18: two links of one source that differ only in their '?query' and/or  *)
(* '#fragment' suffix give the same record identity in every adapter: the  *)
(* same listing_id and the same stored url (or no record for either).      *)
CanonicalIdentity ==
    (url_call # None) => (url_call[1].plain = url_call[1].suffixed)


(***************************************************************************)
(* ListingFilter.matches on its own (MatchSpec): any filters over the      *)
(* rooms, price and landlord constraints applied to any listing dict, one  *)
(* whose 'rooms' or 'price_usd' key is missing or holds None included.     *)
(***************************************************************************)
MaxRooms == 2

Prices == {200, 300, 400}

Optional(S) == {None} \cup {Some(v) : v \in S}

(* The dict with one more key. *)
WithKey(dict, key, value) ==
    [k \in DOMAIN dict \cup {key} |-> IF k = key THEN value ELSE dict[k]]

(* The allow-lists of sources a filters dict may carry under 'sources'. *)
AllowLists == {<<"Onliner">>, <<"Onliner", "Kufar">>}

PlainFilterSpecs ==
    {[get_default_filters EXCEPT !.rooms = r, !.min_price_usd = lo,
                                 !.max_price_usd = hi, !.landlord = who] :
        r \in Optional(1..MaxRooms), lo \in Optional(Prices),
        hi \in Optional(Prices), who \in Optional({"Sobstvennik"})}

FilterSpecs ==
    PlainFilterSpecs \cup
    {WithKey(filters, "sources", allowed) :
        filters \in PlainFilterSpecs, allowed \in AllowLists}

(* The dict without the given keys. *)
Without(dict, keys) == [k \in DOMAIN dict \ keys |-> dict[k]]

ListingDicts ==
    {Without([listing_id |-> 1, source |-> src,
              address |-> "Minsk, ul. Lenina 5",
              rooms |-> r, price_usd |-> p, landlord |-> who], missing) :
        src \in {"Onliner", "Kufar"},
        r \in Optional(1..MaxRooms), p \in Optional(Prices),
        who \in {Some("Sobstvennik"), Some("Agentstvo")},
        missing \in SUBSET {"rooms", "price_usd"}}

Matches ==
    /\ match_call = None
    /\ \E filters \in FilterSpecs, listing \in ListingDicts :
        /\ match_call' = Some([filters |-> filters, listing |-> listing,
                               verdict |-> matches(filters, listing)])
        /\ UNCHANGED <<url_call, parser_call>>
        /\ UNCHANGED <<listings, user_filters>>
        /\ UNCHANGED jobVars
        /\ UNCHANGED besidePure

MatchNext == Matches

MatchSpec == Init /\ [][MatchNext]_vars

RoomsAbsent(listing) ==
    "rooms" \notin DOMAIN listing \/ listing["rooms"] = None

PriceAbsent(listing) ==
    "price_usd" \notin DOMAIN listing \/ listing["price_usd"] = None

(* C19: with rooms set in the filters, matches returns True only for a     *)
(* listing whose rooms is present and equal to it; a listing whose rooms   *)
(* is None or missing gets False.                                          *)
RoomsHardPredicate ==
    (match_call # None /\ match_call[1].filters.rooms # None) =>
        LET c == match_call[1]
        IN  /\ (c.verdict = "true") =>
                   (/\ ~RoomsAbsent(c.listing)
                    /\ c.listing["rooms"] = c.filters.rooms)
            /\ RoomsAbsent(c.listing) => (c.verdict = "false")

(* The predicates other than the named ones are satisfied. *)
SatisfiedWithout(c, keys) ==
    matches([k \in DOMAIN c.filters |->
                 IF k \in keys THEN None ELSE c.filters[k]],
            c.listing) = "true"

RoomsHardPredicateWitness ==
    /\ match_call # None
    /\ match_call[1].filters.rooms # None
    /\ "rooms" \notin DOMAIN match_call[1].listing
    /\ SatisfiedWithout(match_call[1], {"rooms"})
    /\ match_call[1].verdict = "false"

PriceKeys == {"min_price_usd", "max_price_usd"}

(* C20: with a minimum and/or maximum price set and every other predicate  *)
(* satisfied, a listing without price_usd matches, and a listing with      *)
(* price_usd matches exactly when the price is within the bounds set.      *)
SoftPricePredicates ==
    (/\ match_call # None
     /\ \E k \in PriceKeys : match_call[1].filters[k] # None
     /\ SatisfiedWithout(match_call[1], PriceKeys)) =>
        LET c == match_call[1]
            lo == c.filters.min_price_usd
            hi == c.filters.max_price_usd
        IN  IF PriceAbsent(c.listing)
            THEN c.verdict = "true"
            ELSE (c.verdict = "true") <=>
                     (/\ (lo # None) => (lo[1] <= c.listing["price_usd"][1])
                      /\ (hi # None) => (c.listing["price_usd"][1] <= hi[1]))

SoftPricePredicatesWitness ==
    /\ match_call # None
    /\ match_call[1].filters.min_price_usd = Some(300)
    /\ SatisfiedWithout(match_call[1], PriceKeys)
    /\ PriceAbsent(match_call[1].listing)
    /\ match_call[1].verdict = "true"


(* C21: when the filters carry a 'sources' allow-list, matches returns     *)
(* False for every listing whose source is not a member of the list.       *)
SourceAllowList ==
    (/\ match_call # None
     /\ "sources" \in DOMAIN match_call[1].filters
     /\ match_call[1].listing.source \notin
            Range(match_call[1].filters["sources"])) =>
        (match_call[1].verdict = "false")


(***************************************************************************)
(* The extraction helpers of the parsers, each on its own (ExtractSpec).   *)
(*                                                                         *)
(* _extract_landlord.  A text is the sequence of its phrases; `keyword in  *)
(* text_lower` holds when one of the phrases, lowered, is the keyword.     *)
(***************************************************************************)
MaxWords == 2

Vocabulary == {"Sobstvennik", "chastnoe", "Ot agenta", "rieltor", "kvartira"}

Texts == {<<>>} \cup SeqsUpTo(Vocabulary, MaxWords)

text_lower(text) == {Lower(text[i]) : i \in 1..Len(text)}

(* onliner.py 547-551, kufar.py 756-760, domovita.py 591-595 *)
owner_keywords_short ==
    {"sobstvennik", "ot sobstvennika", "bez posrednikov",
     "napryamuyu ot sobstvennika", "hozyain", "vladelets", "ot hozyaina",
     "napryamuyu", "bez agentstv"}

(* realt.py 540-547 *)
owner_keywords ==
    owner_keywords_short \cup
    {"chastnoe litso", "chastnoe", "fizlitso", "fizicheskoe litso",
     "ot vladeltsa", "napryamuyu ot hozyaina", "bez rieltorov",
     "sobstvennik sdaet", "hozyain sdaet", "vladelets sdaet"}

(* realt.py 550-555 *)
agent_keywords ==
    {"agent sdaet", "agentstvo sdaet", "rieltor sdaet", "kompaniya sdaet",
     "byuro sdaet", "agentskaya sdaet", "ot agenta", "ot agentstva",
     "ot rieltora", "cherez agenta", "cherez agentstvo", "cherez rieltora"}

(* realt.py 530-534 *)
nav_phrases ==
    {"agent nedvizhimosti", "agentstvo nedvizhimosti",
     "rieltorskoe agentstvo", "ofis nedvizhimosti", "byuro nedvizhimosti",
     "kompaniya nedvizhimosti", "rieltor", "rielter",
     "agent po nedvizhimosti"}

extract_landlord_short(text) ==
    IF text_lower(text) \cap owner_keywords_short # {}
    THEN "Sobstvennik"
    ELSE "Agentstvo"

extract_landlord_realt(text) ==
    IF text_lower(text) \cap owner_keywords # {}
    THEN "Sobstvennik"
    ELSE IF /\ text_lower(text) \cap nav_phrases = {}
            /\ text_lower(text) \cap agent_keywords # {}
    THEN "Agentstvo"
    ELSE "Sobstvennik"

extract_landlord(src, text) ==
    IF src = "Realt.by" THEN extract_landlord_realt(text)
                        ELSE extract_landlord_short(text)

ExtractLandlord ==
    /\ parser_call = None
    /\ \E src \in Sources, text \in Texts :
        parser_call' = Some([op |-> "extract_landlord", source |-> src,
                             text |-> text,
                             result |-> extract_landlord(src, text)])
    /\ UNCHANGED <<url_call, match_call>>
    /\ UNCHANGED <<listings, user_filters>>
    /\ UNCHANGED jobVars
    /\ UNCHANGED besidePure

Called(op) == parser_call # None /\ parser_call[1].op = op

(* C22: every adapter's classifier gives Owner for a text with neither an  *)
(* Owner keyword nor an Agency keyword, and for a text with both.          *)
LandlordDefaultOwner ==
    Called("extract_landlord") =>
        LET words == text_lower(parser_call[1].text)
            owner == words \cap owner_keywords # {}
            agency == words \cap agent_keywords # {}
        IN  (owner <=> agency) => (parser_call[1].result = "Sobstvennik")


(***************************************************************************)
(* The unit correction of the prices: OnlinerParser._parse_listing_from_   *)
(* link (lines 192-202) and KufarParser._parse_listing_from_json (lines    *)
(* 590-627).  A price is None or Some(amount); the amounts drawn that the  *)
(* code divides are multiples of 100, so `/ 100` is the integer quotient.  *)
(***************************************************************************)
BynCandidates == {None, Some(1300), Some(5000), Some(130000)}

UsdCandidates == {None, Some(450), Some(45000)}

Div100(amount) == Some(amount[1] \div 100)

(* Python's `if price:` for an optional number *)
Truthy(price) == price # None /\ price[1] # 0

onliner_prices(price_byn, price_usd) ==
    [price_usd |-> price_usd,
     price_byn |->
        IF price_byn # None /\ price_byn[1] > 0
        THEN IF Truthy(price_usd) /\ price_usd[1] > 0
             THEN IF price_byn[1] > 10 * price_usd[1]
                  THEN Div100(price_byn)
                  ELSE price_byn
             ELSE IF price_byn[1] > 10000
                  THEN Div100(price_byn)
                  ELSE price_byn
        ELSE price_byn]

kufar_json_prices(price_byn, price_usd) ==
    IF price_usd = None
    THEN [price_byn |-> price_byn, price_usd |-> price_usd]
    ELSE LET usd == IF price_usd[1] > 1000 THEN Div100(price_usd)
                                           ELSE price_usd
         IN  [price_usd |-> usd,
              price_byn |->
                 IF price_byn # None /\ price_byn[1] > 10000
                 THEN IF Truthy(usd) /\ usd[1] > 0
                      THEN IF price_byn[1] > 10 * usd[1]
                           THEN Div100(price_byn)
                           ELSE price_byn
                      ELSE IF price_byn[1] > 100000
                           THEN Div100(price_byn)
                           ELSE price_byn
                 ELSE price_byn]

correct_units(src, price_byn, price_usd) ==
    IF src = "Kufar" THEN kufar_json_prices(price_byn, price_usd)
                     ELSE onliner_prices(price_byn, price_usd)

CorrectUnits ==
    /\ parser_call = None
    /\ \E src \in {"Onliner", "Kufar"},
          price_byn \in BynCandidates, price_usd \in UsdCandidates :
        parser_call' = Some([op |-> "correct_units", source |-> src,
                             price_byn |-> price_byn, price_usd |-> price_usd,
                             result |-> correct_units(src, price_byn,
                                                      price_usd)])
    /\ UNCHANGED <<url_call, match_call>>
    /\ UNCHANGED <<listings, user_filters>>
    /\ UNCHANGED jobVars
    /\ UNCHANGED besidePure

(* C23: when both a BYN and a USD candidate were extracted, the emitted    *)
(* price_byn is the extracted one divided by 100 if price_byn / price_usd  *)
(* exceeds 10, and the extracted one unchanged otherwise.                  *)
UnitCorrection ==
    (/\ Called("correct_units")
     /\ parser_call[1].price_byn # None
     /\ parser_call[1].price_usd # None) =>
        LET c == parser_call[1]
        IN  c.result.price_byn =
                IF c.price_byn[1] > 10 * c.price_usd[1]
                THEN Div100(c.price_byn)
                ELSE c.price_byn


(***************************************************************************)
(* BaseParser.extract_price and extract_rooms.  A text is seen through     *)
(* what re.search finds in it: the numbers the patterns of one list match, *)
(* in the order of the list (a pattern that matches nothing is skipped by  *)
(* the loop and leaves no trace).                                          *)
(***************************************************************************)
MaxMatches == 2

PriceValues == {0, 500, 15000}

RoomValues == {0, 2, 25}

MatchesOf(values) == {<<>>} \cup SeqsUpTo(values, MaxMatches)

(* Lines 108-118 (USD) and 126-136 (BYN): the variable is assigned at each *)
(* match and the loop breaks at the first value in the range.              *)
RECURSIVE price_loop(_, _)
price_loop(found, price) ==
    IF found = <<>>
    THEN price
    ELSE IF Head(found) > 0 /\ Head(found) < 10000
    THEN Some(Head(found))
    ELSE price_loop(Tail(found), Some(Head(found)))

extract_price(byn_found, usd_found) ==
    [price_byn |-> price_loop(byn_found, None),
     price_usd |-> price_loop(usd_found, None)]

ExtractPrice ==
    /\ parser_call = None
    /\ \E byn_found \in MatchesOf(PriceValues),
          usd_found \in MatchesOf(PriceValues) :
        parser_call' = Some([op |-> "extract_price",
                             byn_found |-> byn_found,
                             usd_found |-> usd_found,
                             result |-> extract_price(byn_found, usd_found)])
    /\ UNCHANGED <<url_call, match_call>>
    /\ UNCHANGED <<listings, user_filters>>
    /\ UNCHANGED jobVars
    /\ UNCHANGED besidePure

Plausible(found) == {i \in 1..Len(found) : found[i] > 0 /\ found[i] < 10000}

FirstPlausible(found) ==
    IF Plausible(found) = {}
    THEN None
    ELSE Some(found[CHOOSE i \in Plausible(found) :
                        \A j \in Plausible(found) : i <= j])

(* C24: for each currency extract_price returns the first matched value    *)
(* lying strictly between 0 and 10000, and None when no match is in range. *)
PricePlausibility ==
    Called("extract_price") =>
        /\ parser_call[1].result.price_byn =
               FirstPlausible(parser_call[1].byn_found)
        /\ parser_call[1].result.price_usd =
               FirstPlausible(parser_call[1].usd_found)

(* Lines 160-169: the first match whose value lies in 1..10. *)
RECURSIVE extract_rooms(_)
extract_rooms(found) ==
    IF found = <<>>
    THEN None
    ELSE IF 1 <= Head(found) /\ Head(found) <= 10
    THEN Some(Head(found))
    ELSE extract_rooms(Tail(found))

(* kufar.py 570-586: the 'rooms' entry of ad_parameters holds a string of  *)
(* digits (param) or there is none; subject_found is what the patterns     *)
(* match in the subject.                                                   *)
kufar_json_rooms(param, subject_found) ==
    IF param # None THEN param ELSE extract_rooms(subject_found)

(* realt.py 446-470: the rooms element, then the number in the link, then  *)
(* the text of the container.                                              *)
realt_container_rooms(elem_found, link_group, text_found) ==
    IF extract_rooms(elem_found) # None
    THEN extract_rooms(elem_found)
    ELSE IF link_group # None
    THEN link_group
    ELSE extract_rooms(text_found)

ExtractRooms ==
    /\ parser_call = None
    /\ \E src \in {"Kufar", "Realt.by"},
          elem_found \in MatchesOf(RoomValues),
          structured \in Optional(RoomValues),
          text_found \in MatchesOf(RoomValues) :
        /\ (src = "Kufar") => (elem_found = <<>>)
        /\ parser_call' =
               Some([op |-> "rooms", source |-> src,
                     elem_found |-> elem_found, structured |-> structured,
                     text_found |-> text_found,
                     result |->
                        IF src = "Kufar"
                        THEN kufar_json_rooms(structured, text_found)
                        ELSE realt_container_rooms(elem_found, structured,
                                                   text_found)])
    /\ UNCHANGED <<url_call, match_call>>
    /\ UNCHANGED <<listings, user_filters>>
    /\ UNCHANGED jobVars
    /\ UNCHANGED besidePure

(* C25: the rooms of an emitted listing is None or an integer in 1..10.    *)
RoomCountRange ==
    Called("rooms") =>
        \/ parser_call[1].result = None
        \/ parser_call[1].result[1] \in 1..10

ExtractNext ==
    \/ ExtractLandlord
    \/ CorrectUnits
    \/ ExtractPrice
    \/ ExtractRooms

ExtractSpec == Init /\ [][ExtractNext]_vars


(***************************************************************************)
(* The methods of Database on the table user_filters that take a filter id *)
(* and a user id (FilterStoreSpec).  datetime.now() is the number of the   *)
(* call.                                                                   *)
(***************************************************************************)
MaxFilterCalls == 2

(* The ids of the stored filters and one id that is not stored. *)
FilterIds == {InitUserFilters[i].id : i \in DOMAIN InitUserFilters} \cup {9}

NewFilters == [get_default_filters EXCEPT !.rooms = Some(1)]

UpdateArgs ==
    [filter_name : Optional({"Novyi"}), filters : Optional({NewFilters}),
     is_active : Optional(BOOLEAN)]

(* WHERE id = ? AND user_id = ? *)
Where(row, filter_id, user_id) == row.id = filter_id /\ row.user_id = user_id

(* Database.get_user_filter_by_id *)
get_user_filter_by_id(table, filter_id, user_id) ==
    IF \E i \in DOMAIN table : Where(table[i], filter_id, user_id)
    THEN LET row == table[CHOOSE i \in DOMAIN table :
                              Where(table[i], filter_id, user_id)]
         IN  Some([id |-> row.id, filter_name |-> row.filter_name,
                   filters |-> row.filters, is_active |-> row.is_active])
    ELSE None

Updated(row, args, now) ==
    [row EXCEPT
        !.filter_name = IF args.filter_name # None THEN args.filter_name[1]
                                                   ELSE @,
        !.filters = IF args.filters # None THEN args.filters[1] ELSE @,
        !.is_active = IF args.is_active # None THEN args.is_active[1] ELSE @,
        !.updated_at = now]

(* Database.update_user_filter *)
update_user_filter_any_owner(table, filter_id, user_id, args, now) ==
    IF args.filter_name = None /\ args.filters = None /\ args.is_active = None
    THEN [table |-> table, result |-> FALSE]
    ELSE [table |-> [i \in DOMAIN table |->
                        IF table[i].id = filter_id
                        THEN Updated(table[i], args, now)
                        ELSE table[i]],
          result |-> \E i \in DOMAIN table : table[i].id = filter_id]

update_user_filter(table, filter_id, user_id, args, now) ==
    IF args.filter_name = None /\ args.filters = None /\ args.is_active = None
    THEN [table |-> table, result |-> FALSE]
    ELSE [table |-> [i \in DOMAIN table |->
                        IF Where(table[i], filter_id, user_id)
                        THEN Updated(table[i], args, now)
                        ELSE table[i]],
          result |-> \E i \in DOMAIN table :
                         Where(table[i], filter_id, user_id)]

(* Database.delete_user_filter *)
delete_user_filter(table, filter_id, user_id) ==
    LET Kept(row) == ~Where(row, filter_id, user_id)
    IN  [table |-> SelectSeq(table, Kept),
         result |-> \E i \in DOMAIN table :
                        Where(table[i], filter_id, user_id)]

CallNumber == IF filter_call = None THEN 0 ELSE filter_call[1].n

NoArgs == [filter_name |-> None, filters |-> None, is_active |-> None]

UpdateUserFilter ==
    /\ CallNumber < MaxFilterCalls
    /\ \E filter_id \in FilterIds, user_id \in Users, args \in UpdateArgs :
        LET done == update_user_filter(user_filters, filter_id, user_id,
                                       args, CallNumber + 1)
        IN  /\ user_filters' = done.table
            /\ filter_call' = Some([n |-> CallNumber + 1, op |-> "update",
                                    filter_id |-> filter_id,
                                    user_id |-> user_id, args |-> args,
                                    result |-> done.result])
    /\ UNCHANGED listings
    /\ UNCHANGED jobVars
    /\ UNCHANGED besideFilter

DeleteUserFilter ==
    /\ CallNumber < MaxFilterCalls
    /\ \E filter_id \in FilterIds, user_id \in Users :
        LET done == delete_user_filter(user_filters, filter_id, user_id)
        IN  /\ user_filters' = done.table
            /\ filter_call' = Some([n |-> CallNumber + 1, op |-> "delete",
                                    filter_id |-> filter_id,
                                    user_id |-> user_id, args |-> NoArgs,
                                    result |-> done.result])
    /\ UNCHANGED listings
    /\ UNCHANGED jobVars
    /\ UNCHANGED besideFilter

GetUserFilterById ==
    /\ CallNumber < MaxFilterCalls
    /\ \E filter_id \in FilterIds, user_id \in Users :
        filter_call' = Some([n |-> CallNumber + 1, op |-> "get",
                             filter_id |-> filter_id, user_id |-> user_id,
                             args |-> NoArgs,
                             result |-> get_user_filter_by_id(
                                            user_filters, filter_id,
                                            user_id)])
    /\ UNCHANGED <<listings, user_filters>>
    /\ UNCHANGED jobVars
    /\ UNCHANGED besideFilter

FilterStoreNext ==
    \/ UpdateUserFilter
    \/ DeleteUserFilter
    \/ GetUserFilterById

FilterStoreSpec == Init /\ [][FilterStoreNext]_vars

(* The call filter_call' carries the user_id of the owner of the filter   *)
(* it names.                                                               *)
ByOwner ==
    \E i \in DOMAIN user_filters :
        Where(user_filters[i], filter_call'[1].filter_id,
              filter_call'[1].user_id)

Recipient(t) == IF t = "periodic" THEN 101 ELSE 202

awaits_everywhere(at) == TRUE

(* The statements at which a task awaits (or is over): listing_service.py  *)
(* lines 51-72 (the parsers), main.py line 62 (the send).                  *)
awaits(at) == at \in {"fetch", "send", "done"}

(* The task may take its next step: the thread is free or it holds it. *)
MayStep(t) == running = None \/ running = Some(t)

(* Who holds the thread once t stands at statement at. *)
Holder(t, at) == IF awaits(at) THEN None ELSE Some(t)

(* The awaited parser call returns with a listing of the page. *)
FetchDone(t) ==
    /\ task_pc[t] = "fetch"
    /\ MayStep(t)
    /\ \E l \in StoreInputs :
          task_listing' = [task_listing EXCEPT ![t] = Some(l)]
    /\ task_pc' = [task_pc EXCEPT ![t] = "insert"]
    /\ running' = Holder(t, "insert")
    /\ UNCHANGED <<task_read, task_new>>
    /\ UNCHANGED <<listings, user_filters>>
    /\ UNCHANGED jobVars
    /\ UNCHANGED besideRace

(* Database.add_listing: the INSERT and its commit, then the await of the  *)
(* send.                                                                   *)
Insert(t) ==
    /\ task_pc[t] = "insert"
    /\ MayStep(t)
    /\ LET done == add_listing(listings, task_listing[t][1], FALSE)
       IN  /\ listings' = done.table
           /\ task_new' = [task_new EXCEPT ![t] = Some(done.is_new)]
    /\ task_pc' = [task_pc EXCEPT ![t] = "send"]
    /\ running' = Holder(t, "send")
    /\ UNCHANGED <<task_read, task_listing>>
    /\ UNCHANGED user_filters
    /\ UNCHANGED jobVars
    /\ UNCHANGED besideRace

(* The awaited send returns; mark_listing_sent runs its SELECT (lines      *)
(* 174-178) and, for a row that is stored, holds the list it read; with no *)
(* row it is over (line 179).                                              *)
SelectSent(t) ==
    /\ task_pc[t] = "send"
    /\ MayStep(t)
    /\ LET listing_id == task_listing[t][1].listing_id
           at == IF listing_id \in DOMAIN listings THEN "update" ELSE "done"
       IN  /\ task_read' = [task_read EXCEPT ![t] =
                                IF listing_id \in DOMAIN listings
                                THEN Some(listings[listing_id].sent_to_users)
                                ELSE None]
           /\ task_pc' = [task_pc EXCEPT ![t] = at]
           /\ running' = Holder(t, at)
    /\ UNCHANGED <<task_new, task_listing>>
    /\ UNCHANGED <<listings, user_filters>>
    /\ UNCHANGED jobVars
    /\ UNCHANGED besideRace

(* Lines 180-186: the list read, with the recipient appended if it was not *)
(* in it, is written back.                                                 *)
UpdateSent(t) ==
    /\ task_pc[t] = "update"
    /\ MayStep(t)
    /\ LET listing_id == task_listing[t][1].listing_id
           sent_to == task_read[t][1]
       IN  listings' =
              IF Recipient(t) \notin Range(sent_to)
              THEN [listings EXCEPT ![listing_id].sent_to_users =
                                       Append(sent_to, Recipient(t))]
              ELSE listings
    /\ task_pc' = [task_pc EXCEPT ![t] = "done"]
    /\ running' = Holder(t, "done")
    /\ UNCHANGED <<task_read, task_new, task_listing>>
    /\ UNCHANGED user_filters
    /\ UNCHANGED jobVars
    /\ UNCHANGED besideRace

RaceNext ==
    \/ \E t \in Tasks : FetchDone(t)
    \/ \E t \in Tasks : Insert(t)
    \/ \E t \in Tasks : SelectSent(t)
    \/ \E t \in Tasks : UpdateSent(t)

RaceSpec == Init /\ [][RaceNext]_vars

Inserted(t) == task_new[t] # None

SameListing ==
    /\ \A t \in Tasks : task_listing[t] # None
    /\ \A t, u \in Tasks :
          task_listing[t][1].listing_id = task_listing[u][1].listing_id

(* C28: when both runs have called add_listing for the same listing_id,    *)
(* in whatever order the loop ran them, exactly one of the calls returned  *)
(* True and the one record stored holds the field values of that call.     *)
ObserveRaceFree ==
    (SameListing /\ \A t \in Tasks : Inserted(t)) =>
        \E t \in Tasks :
            /\ task_new[t] = Some(TRUE)
            /\ \A u \in Tasks \ {t} : task_new[u] = Some(FALSE)
            /\ Fields(listings[task_listing[t][1].listing_id]) =
                   Fields(Row(task_listing[t][1]))

ObserveRaceFreeWitness ==
    /\ SameListing
    /\ \A t \in Tasks : Inserted(t)
    /\ task_listing["periodic"] # task_listing["scan"]
    /\ task_new["scan"] = Some(TRUE)

(* C29: when both runs have completed mark_listing_sent for the same       *)
(* stored listing, both recipients are in its sent set.                    *)
NoLostDeliveryMark ==
    (SameListing /\ \A t \in Tasks : task_pc[t] = "done") =>
        \A t \in Tasks :
            Recipient(t) \in
                Range(listings[task_listing[t][1].listing_id].sent_to_users)

NoLostDeliveryMarkWitness ==
    /\ SameListing
    /\ \A t \in Tasks : task_pc[t] = "done"
    /\ listings[task_listing["scan"][1].listing_id].sent_to_users =
           <<202, 101>>


(***************************************************************************)
(* SeleniumBaseParser._fetch_page_sync, lines 143-169: the scroll loop     *)
(* (ScrollSpec).  The browser reports any height at each measurement.      *)
(***************************************************************************)
max_scrolls == 10

MaxHeight == 3

Heights == 1..MaxHeight

stabilised_never(measured, previous) == FALSE

(* Line 158: if new_height == last_height *)
stabilised(measured, previous) == measured = previous

(* Lines 146-148: the height before the loop. *)
StartScroll ==
    /\ scroll_pc = "idle"
    /\ \E height \in Heights : last_height' = height
    /\ scrolls' = 0
    /\ scroll_pc' = "while"
    /\ UNCHANGED <<new_height, iterations>>
    /\ UNCHANGED <<listings, user_filters>>
    /\ UNCHANGED jobVars
    /\ UNCHANGED besideScroll

(* Lines 150-153: the loop test holds; scroll to the bottom and wait. *)
ScrollDown ==
    /\ scroll_pc = "while"
    /\ scrolls < max_scrolls
    /\ iterations' = iterations + 1
    /\ scroll_pc' = "measure"
    /\ UNCHANGED <<scrolls, last_height, new_height>>
    /\ UNCHANGED <<listings, user_filters>>
    /\ UNCHANGED jobVars
    /\ UNCHANGED besideScroll

(* Line 150: the loop test fails. *)
ExitLoop ==
    /\ scroll_pc = "while"
    /\ ~(scrolls < max_scrolls)
    /\ scroll_pc' = "top"
    /\ UNCHANGED <<scrolls, last_height, new_height, iterations>>
    /\ UNCHANGED <<listings, user_filters>>
    /\ UNCHANGED jobVars
    /\ UNCHANGED besideScroll

(* Lines 156-162: measure; break on an unchanged height, else go on. *)
Measure ==
    /\ scroll_pc = "measure"
    /\ \E height \in Heights :
          /\ new_height' = height
          /\ IF stabilised(height, last_height)
             THEN /\ scroll_pc' = "top"
                  /\ UNCHANGED <<last_height, scrolls>>
             ELSE /\ last_height' = height
                  /\ scrolls' = scrolls + 1
                  /\ scroll_pc' = "while"
    /\ UNCHANGED iterations
    /\ UNCHANGED <<listings, user_filters>>
    /\ UNCHANGED jobVars
    /\ UNCHANGED besideScroll

(* Lines 166-167: a script raises in the loop; the error is logged and the *)
(* function goes on to return the page.                                    *)
ScrollRaises ==
    /\ scroll_pc = "measure"
    /\ scroll_pc' = "return"
    /\ UNCHANGED <<scrolls, last_height, new_height, iterations>>
    /\ UNCHANGED <<listings, user_filters>>
    /\ UNCHANGED jobVars
    /\ UNCHANGED besideScroll

(* Lines 164-165: back to the top of the page. *)
ScrollTop ==
    /\ scroll_pc = "top"
    /\ scroll_pc' = "return"
    /\ UNCHANGED <<scrolls, last_height, new_height, iterations>>
    /\ UNCHANGED <<listings, user_filters>>
    /\ UNCHANGED jobVars
    /\ UNCHANGED besideScroll

(* Line 169: return self.driver.page_source *)
ReturnPage ==
    /\ scroll_pc = "return"
    /\ scroll_pc' = "returned"
    /\ UNCHANGED <<scrolls, last_height, new_height, iterations>>
    /\ UNCHANGED <<listings, user_filters>>
    /\ UNCHANGED jobVars
    /\ UNCHANGED besideScroll

ScrollNext ==
    \/ StartScroll
    \/ ScrollDown
    \/ ExitLoop
    \/ Measure
    \/ ScrollRaises
    \/ ScrollTop
    \/ ReturnPage

(* The call runs in a thread of the executor, which runs it to its end. *)
ScrollSpec == Init /\ [][ScrollNext]_vars /\ WF_vars(ScrollNext)

(* C30: whatever heights the browser reports, _fetch_page_sync scrolls    *)
(* down at most 10 times, leaves the loop at the first measurement equal  *)
(* to the height before it (and not at one that differs), and returns    *)
(* the page source.                                                       *)
ScrollLoopTerminates ==
    /\ [](iterations <= max_scrolls)
    /\ [][(scroll_pc = "measure" /\ scroll_pc' # "return") =>
             ((new_height' = last_height) <=> (scroll_pc' = "top"))]_vars
    /\ <>(scroll_pc = "returned")

ScrollLoopTerminatesWitness ==
    /\ scroll_pc = "returned"
    /\ iterations \in 2..(max_scrolls - 1)
    /\ new_height = last_height
    /\ scrolls = iterations - 1

====
